---- MODULE Spec2Model ----
(***************************************************************************)
(* sneakpeek-cli (src/index.js): the `upload <path>` command.              *)
(*                                                                         *)
(* One run of the command is modelled: uploadCommand validates the path    *)
(* and starts zip(); the archiver / write stream emit 'error' or 'finish'; *)
(* on 'finish' the promise of zip() resolves and upload() runs, resolving  *)
(* the revision (gitInfo), building the URL (sneakpeekUrl) and issuing the *)
(* POST; the request emits progress events and finally settles.            *)
(*                                                                         *)
(* JavaScript strings are sequences of one-character strings, so that      *)
(* trim(), the quote stripping of git() and encodeURIComponent are         *)
(* computed rather than assumed.                                           *)
(***************************************************************************)
EXTENDS Integers, Sequences, FiniteSets

(***************************************************************************)
(* JavaScript values                                                        *)
(***************************************************************************)
Undefined == [t |-> "undefined", v |-> <<>>]
Null == [t |-> "null", v |-> <<>>]
Str(s) == [t |-> "string", v |-> s]

\* JavaScript truthiness of undefined, null and strings
Truthy(x) == x.t = "string" /\ x.v # <<>>

\* String(x)
StringOf(x) ==
  CASE x.t = "undefined" -> <<"u","n","d","e","f","i","n","e","d">>
    [] x.t = "null" -> <<"n","u","l","l">>
    [] OTHER -> x.v

(***************************************************************************)
(* String helpers                                                           *)
(***************************************************************************)
WhiteSpace == {" ", "\n", "\t"}

RECURSIVE TrimStart(_)
TrimStart(s) ==
  IF s # <<>> /\ Head(s) \in WhiteSpace THEN TrimStart(Tail(s)) ELSE s

RECURSIVE TrimEnd(_)
TrimEnd(s) ==
  IF s # <<>> /\ s[Len(s)] \in WhiteSpace
    THEN TrimEnd(SubSeq(s, 1, Len(s) - 1))
    ELSE s

\* String.prototype.trim
Trim(s) == TrimEnd(TrimStart(s))

\* s.replace(/^"/, "")
StripLeadingQuote(s) ==
  IF s # <<>> /\ Head(s) = "\"" THEN Tail(s) ELSE s

\* s.replace(/"$/, "")
StripTrailingQuote(s) ==
  IF s # <<>> /\ s[Len(s)] = "\"" THEN SubSeq(s, 1, Len(s) - 1) ELSE s

\* Array.prototype.join
RECURSIVE Join(_, _)
Join(parts, sep) ==
  IF parts = <<>> THEN <<>>
  ELSE IF Len(parts) = 1 THEN Head(parts)
  ELSE Head(parts) \o sep \o Join(Tail(parts), sep)

\* characters encodeURIComponent leaves alone (those the model uses)
Unreserved ==
  {"a","b","c","d","e","f","g","h","i","j","k","l","m","n","o","p","q","r",
   "s","t","u","v","w","x","y","z","A","D","E","H",
   "0","1","2","3","4","5","6","7","8","9","-","_",".","!","~","*","'","(",")"}

\* the percent escapes of the reserved characters the model uses
PercentCode(c) ==
  CASE c = "/" -> <<"%","2","F">>
    [] c = " " -> <<"%","2","0">>
    [] c = ":" -> <<"%","3","A">>
    [] c = "\"" -> <<"%","2","2">>
    [] c = "\n" -> <<"%","0","A">>
    [] OTHER -> <<"%","3","F">>

RECURSIVE EncodeChars(_)
EncodeChars(s) ==
  IF s = <<>> THEN <<>>
  ELSE (IF Head(s) \in Unreserved THEN <<Head(s)>> ELSE PercentCode(Head(s)))
       \o EncodeChars(Tail(s))

\* encodeURIComponent(x): x is converted to a string first
encodeURIComponent(x) == EncodeChars(StringOf(x))

(***************************************************************************)
(* RevisionResolver                                                         *)
(***************************************************************************)
\* the reftype of a RevisionInfo whose reftype is null
NullRef == "null"

\* getCiInfo() preferring the branch name over the tag
getCiInfo_branchFirst(e) ==
  IF Truthy(e.CI_BUILD_REF_NAME)
    THEN [sha |-> e.CI_BUILD_REF, reftype |-> "branch",
          ref |-> e.CI_BUILD_REF_NAME]
    ELSE [sha |-> e.CI_BUILD_REF, reftype |-> "tag", ref |-> e.CI_BUILD_TAG]

\* getCiInfo(): env is process.env
getCiInfo(e) ==
  IF Truthy(e.CI_BUILD_TAG)
    THEN [sha |-> e.CI_BUILD_REF, reftype |-> "tag", ref |-> e.CI_BUILD_TAG]
    ELSE [sha |-> e.CI_BUILD_REF, reftype |-> "branch",
          ref |-> e.CI_BUILD_REF_NAME]

\* git(...args): out is what execSync does, [ok, stdout]; a throw gives null
git(out) ==
  IF out.ok
    THEN Str(StripTrailingQuote(StripLeadingQuote(Trim(out.stdout))))
    ELSE Null

\* getGitInfo(): outs are the results of the git subprocesses
getGitInfo(outs) ==
  LET sha == git(outs.show)
      tag == git(outs.describe)
      ref == IF Truthy(tag) THEN tag ELSE git(outs.revparse)
      reftype == IF Truthy(tag) THEN "tag" ELSE "branch"
  IN [sha |-> sha,
      reftype |-> IF Truthy(ref) THEN reftype ELSE NullRef,
      ref |-> ref]

\* the git subprocesses getGitInfo() runs, in order, with their results
getGitInfoCalls(outs) ==
  <<[cmd |-> "show", out |-> outs.show],
    [cmd |-> "describe", out |-> outs.describe]>>
  \o (IF Truthy(git(outs.describe)) THEN <<>>
      ELSE <<[cmd |-> "rev-parse", out |-> outs.revparse]>>)

\* gitInfo()
gitInfo(e, outs) ==
  IF Truthy(e.CI) THEN getCiInfo(e) ELSE getGitInfo(outs)

gitInfoCalls(e, outs) ==
  IF Truthy(e.CI) THEN <<>> ELSE getGitInfoCalls(outs)

(***************************************************************************)
(* Uploader: URL construction                                               *)
(***************************************************************************)
reftypeToUrlMap ==
  [k \in {"branch", "tag"} |->
     IF k = "branch" THEN <<"b","r","a","n","c","h","e","s">>
                     ELSE <<"t","a","g","s">>]

\* reftypeToUrlMap[key]: a missing key gives undefined, which join() renders
\* as the empty string
UrlSegment(key) ==
  IF key \in DOMAIN reftypeToUrlMap THEN reftypeToUrlMap[key] ELSE <<>>

\* sneakpeekUrl without its reftype check
sneakpeekUrlThrows_never(meta) == FALSE

\* sneakpeekUrl throws
sneakpeekUrlThrows(meta) == meta.reftype \notin DOMAIN reftypeToUrlMap

\* sneakpeekUrl pushing git.ref without encoding it
sneakpeekUrl_rawRef(base, project, meta) ==
  Join(<<base,
         <<"p","r","o","j","e","c","t","s">>,
         encodeURIComponent(project),
         UrlSegment(meta.reftype),
         StringOf(meta.ref)>>,
       <<"/">>)

\* sneakpeekUrl(base, project, git) when it does not throw
sneakpeekUrl(base, project, meta) ==
  Join(<<base,
         <<"p","r","o","j","e","c","t","s">>,
         encodeURIComponent(project),
         UrlSegment(meta.reftype),
         encodeURIComponent(meta.ref)>>,
       <<"/">>)

(***************************************************************************)
(* Inputs of a run                                                          *)
(***************************************************************************)
\* most progress events of one request
MaxEvents == 3
\* largest byte count of a progress event
MaxBytes == 1

S_abc123 == <<"a","b","c","1","2","3">>
S_v120 == <<"v","1",".","2",".","0">>
S_main == <<"m","a","i","n">>
S_demo == <<"d","e","m","o">>
S_example ==
  <<"h","t","t","p","s",":","/","/","a","p","i",".","e","x","a","m","p","l",
    "e",".","c","o","m">>
S_default ==
  <<"h","t","t","p","s",":","/","/","a","p","i",".","p","e","e","k",".","d",
    "i","g","i","t","p","a","i","n","t",".","n","l">>

\* process.env: CI mode with every combination of the CI_BUILD_* variables,
\* local mode (CI unset or empty) with none or all of them
EnvSet ==
  [CI : {Str(<<"1">>)},
   CI_BUILD_REF : {Undefined, Str(S_abc123)},
   CI_BUILD_TAG : {Undefined, Str(<<>>), Str(S_v120)},
   CI_BUILD_REF_NAME : {Undefined, Str(S_main)},
   SNEAKPEEK_API_URL : {Undefined},
   SNEAKPEEK_API_KEY : {Undefined, Str(<<"e">>)}]
  \cup
  [CI : {Undefined, Str(<<>>)},
   CI_BUILD_REF : {Undefined},
   CI_BUILD_TAG : {Undefined, Str(S_v120)},
   CI_BUILD_REF_NAME : {Undefined},
   SNEAKPEEK_API_URL : {Undefined},
   SNEAKPEEK_API_KEY : {Undefined, Str(<<"e">>)}]

\* the command line: an option that is not given is undefined
CliSet ==
  [path : {Str(<<"d">>)},
   project : {Str(S_demo), Str(<<"a","/","b">>)},
   gitlabProject : {Str(<<"g","/","n">>)},
   apiUrl : {Str(S_example)},
   apiKey : {Undefined, Str(<<>>), Str(<<"k">>)}]

\* what options.path is on disk
FsSet == {"missing", "file", "dir"}

\* what execSync does for one git command
Failed == [ok |-> FALSE, stdout |-> <<>>]
Stdout(s) == [ok |-> TRUE, stdout |-> s]

GitOutSet ==
  [show : {Failed, Stdout(<<"\"","a","b","c","\"","\n">>)},
   describe : {Failed, Stdout(<<"v","1","\n">>)},
   revparse : {Failed, Stdout(<<"H","E","A","D","\n">>),
               Stdout(<<"f","/","x","\n">>)}]

\* the ways the request settles: a 2xx response, an HTTP error status, or a
\* network error (an error without status, status 0 here)
ResponseSet ==
  {[ok |-> TRUE, status |-> 200], [ok |-> FALSE, status |-> 401],
   [ok |-> FALSE, status |-> 500], [ok |-> FALSE, status |-> 0]}

NoResponse == [ok |-> FALSE, status |-> -1]
NoBar == [defined |-> FALSE, total |-> 0]
NoMeta == [sha |-> Undefined, reftype |-> "none", ref |-> Undefined]

(***************************************************************************)
(* CommandLineInterface                                                     *)
(***************************************************************************)
\* a || b
OrElse(a, b) == IF Truthy(a) THEN a ELSE b

DEFAULTS(e) ==
  [path |-> Null, project |-> Null, gitlabProject |-> Null,
   apiUrl |-> OrElse(e.SNEAKPEEK_API_URL, Str(S_default)),
   apiKey |-> OrElse(e.SNEAKPEEK_API_KEY, Null)]

\* yargs: an option that is not given takes its declared default
yargsParse(e, c) ==
  [c EXCEPT !.apiUrl = IF c.apiUrl = Undefined THEN DEFAULTS(e).apiUrl
                       ELSE c.apiUrl,
            !.apiKey = IF c.apiKey = Undefined THEN DEFAULTS(e).apiKey
                       ELSE c.apiKey]

\* Object.assign({}, a, b)
ObjectAssign(a, b) ==
  [k \in DOMAIN a \cup DOMAIN b |-> IF k \in DOMAIN b THEN b[k] ELSE a[k]]

\* the options uploadCommand(argv) builds
Options(e, c) == ObjectAssign(DEFAULTS(e), yargsParse(e, c))

\* validatePath(dir): the error it throws, "none" when it returns
validatePath(kind) ==
  CASE kind = "missing" -> "ENOENT"
    [] kind = "file" -> "not a directory"
    [] OTHER -> "none"

(***************************************************************************)
(* State                                                                    *)
(***************************************************************************)
VARIABLES
  env,          \* process.env
  cli,          \* the command line options given
  fs,           \* what the path argument is on disk
  phases,       \* the phases the run has entered, in order
  thrown,       \* the error uploadCommand threw, "none" if none
  console,      \* what was printed, in order
  tmpFiles,     \* temp archive files created (tmpNameSync + createWriteStream)
  archive,      \* the archiver stream: "none", "active", "errored", "ended"
  output,       \* the write stream: "none", "open", "finished"
  zipPromise,   \* the promise of zip(): "none", "pending", "resolved", "rejected"
  uploadCalls,  \* invocations of upload()
  gitLog,       \* the git subprocesses run, in order
  metadata,     \* the RevisionInfo upload() resolved
  posts,        \* requests created by request.post(url)
  url,          \* the URL of the request
  headers,      \* the headers set on the request, as <<name, value>> pairs
  fields,       \* the form fields and attachments of the request
  uploadResult, \* upload(): "none", "threw", "pending", "resolved", "rejected"
  response,     \* how the request settled
  bar,          \* the ProgressBar: [defined, total]
  last,         \* `last` of the progress handler
  nEvents,      \* progress events delivered
  firstTotal,   \* e.total of the first progress event
  loadedLog,    \* e.loaded of every progress event, in order
  ticks,        \* the arguments of the bar.tick() calls, in order
  barsCreated   \* ProgressBar instances constructed

vars ==
  <<env, cli, fs, phases, thrown, console, tmpFiles, archive, output,
    zipPromise, uploadCalls, gitLog, metadata, posts, url, headers, fields,
    uploadResult, response, bar, last, nEvents, firstTotal, loadedLog,
    ticks, barsCreated>>

inputVars == <<env, cli, fs>>
zipVars == <<tmpFiles, archive, output, zipPromise>>
requestVars == <<uploadCalls, gitLog, metadata, posts, url, headers, fields>>
progressVars ==
  <<bar, last, nEvents, firstTotal, loadedLog, ticks, barsCreated>>

options == Options(env, cli)

Init ==
  /\ env \in EnvSet
  /\ cli \in CliSet
  /\ fs \in FsSet
  /\ phases = <<"Idle">>
  /\ thrown = "none"
  /\ console = <<>>
  /\ tmpFiles = 0
  /\ archive = "none"
  /\ output = "none"
  /\ zipPromise = "none"
  /\ uploadCalls = 0
  /\ gitLog = <<>>
  /\ metadata = NoMeta
  /\ posts = 0
  /\ url = <<>>
  /\ headers = {}
  /\ fields = <<>>
  /\ uploadResult = "none"
  /\ response = NoResponse
  /\ bar = NoBar
  /\ last = 0
  /\ nEvents = 0
  /\ firstTotal = 0
  /\ loadedLog = <<>>
  /\ ticks = <<>>
  /\ barsCreated = 0

(***************************************************************************)
(* uploadCommand(argv): merges the options, validates the path and calls   *)
(* zip(), which creates the temp file and starts the archiver.             *)
(***************************************************************************)
UploadCommand ==
  /\ phases = <<"Idle">>
  /\ thrown' = validatePath(fs)
  /\ IF validatePath(fs) # "none"
       THEN /\ phases' = phases \o <<"Validating">>
            /\ UNCHANGED <<console, zipVars>>
       ELSE /\ phases' = phases \o <<"Validating", "Archiving">>
            /\ console' = console \o <<"Zipping">>
            /\ tmpFiles' = tmpFiles + 1
            /\ archive' = "active"
            /\ output' = "open"
            /\ zipPromise' = "pending"
  /\ UNCHANGED <<inputVars, requestVars, uploadResult, response, progressVars>>

\* a promise that could be settled again
Settle_overwrite(promise, how) == how

\* reject(err) / resolve(tmpFile): a settled promise stays as it is
Settle(promise, how) == IF promise = "pending" THEN how ELSE promise

(***************************************************************************)
(* archive.on('error'): the archiver fails while it is writing             *)
(***************************************************************************)
ArchiveError ==
  /\ archive = "active"
  /\ output = "open"
  /\ archive' = "errored"
  /\ zipPromise' = Settle(zipPromise, "rejected")
  /\ UNCHANGED <<inputVars, phases, thrown, console, tmpFiles, output,
                 requestVars, uploadResult, response, progressVars>>

\* the Authorization header set for every key but null
AuthHeaders_nonNull(opts) ==
  IF opts.apiKey.t = "string"
    THEN {<<"Authorization", opts.apiKey>>}
    ELSE {}

\* the Authorization header upload() sets
AuthHeaders(opts) ==
  IF Truthy(opts.apiKey) /\ opts.apiKey # Str(<<>>)
    THEN {<<"Authorization", opts.apiKey>>}
    ELSE {}

\* upload(zipfile, options), run by the then-callback of zip(); outs is what
\* the git subprocesses do
upload(outs) ==
  LET meta == gitInfo(env, outs) IN
  /\ uploadCalls' = uploadCalls + 1
  /\ console' = console \o <<"Uploading">>
  /\ gitLog' = gitLog \o gitInfoCalls(env, outs)
  /\ metadata' = meta
  /\ IF sneakpeekUrlThrows(meta)
       THEN /\ uploadResult' = "threw"
            /\ UNCHANGED <<posts, url, headers, fields>>
       ELSE /\ posts' = posts + 1
            /\ url' = sneakpeekUrl(options.apiUrl.v, options.project, meta)
            /\ headers' = AuthHeaders(options)
            /\ fields' = <<<<"sha", meta.sha>>,
                           <<"gitlab_project", options.gitlabProject>>,
                           <<"file", Str(<<"z","i","p">>)>>>>
            /\ uploadResult' = "pending"

(***************************************************************************)
(* output.on('finish'): the write stream has flushed; resolve(tmpFile),    *)
(* and if that settles the promise its then-callback runs upload()         *)
(***************************************************************************)
OutputFinish ==
  /\ output = "open"
  /\ output' = "finished"
  /\ archive' = IF archive = "active" THEN "ended" ELSE archive
  /\ zipPromise' = Settle(zipPromise, "resolved")
  /\ IF Settle(zipPromise, "resolved") # zipPromise
       THEN /\ phases' = phases \o <<"Uploading">>
            /\ \E outs \in GitOutSet : upload(outs)
       ELSE UNCHANGED <<phases, console, requestVars, uploadResult>>
  /\ UNCHANGED <<inputVars, thrown, tmpFiles, response, progressVars>>

(***************************************************************************)
(* req.on('progress', e => ...)                                             *)
(***************************************************************************)
\* a handler that also records e.loaded of the first event
ProgressHandler_lastFirst(b, l, e) ==
  IF ~b.defined
    THEN [bar |-> [defined |-> TRUE, total |-> e.total], last |-> e.loaded,
          tick |-> <<>>, created |-> 1]
    ELSE [bar |-> b, last |-> e.loaded, tick |-> <<e.loaded - l>>,
          created |-> 0]

\* the handler's effect on <<bar, last>> and the bar.tick() it makes
ProgressHandler(b, l, e) ==
  IF ~b.defined
    THEN [bar |-> [defined |-> TRUE, total |-> e.total], last |-> l,
          tick |-> <<>>, created |-> 1]
    ELSE [bar |-> b, last |-> e.loaded, tick |-> <<e.loaded - l>>,
          created |-> 0]

Progress ==
  /\ uploadResult = "pending"
  /\ nEvents < MaxEvents
  /\ \E e \in [total : 1..MaxBytes, loaded : 0..MaxBytes] :
       LET h == ProgressHandler(bar, last, e) IN
       /\ bar' = h.bar
       /\ last' = h.last
       /\ ticks' = ticks \o h.tick
       /\ barsCreated' = barsCreated + h.created
       /\ firstTotal' = IF nEvents = 0 THEN e.total ELSE firstTotal
       /\ loadedLog' = Append(loadedLog, e.loaded)
  /\ nEvents' = nEvents + 1
  /\ UNCHANGED <<inputVars, phases, thrown, console, zipVars, requestVars,
                 uploadResult, response>>

(***************************************************************************)
(* The request settles: req.then(...).catch(...)                            *)
(***************************************************************************)
\* a catch handler without the 401 case
CatchHandler_generic(e) == <<"Upload failed", "error">>

\* what the catch handler prints for error e
CatchHandler(e) ==
  IF e.status = 401 THEN <<"Unauthorized">> ELSE <<"Upload failed", "error">>

ResponseSuccess ==
  /\ uploadResult = "pending"
  /\ \E r \in {x \in ResponseSet : x.ok} : response' = r
  /\ console' = console \o <<"body">>
  /\ uploadResult' = "resolved"
  /\ phases' = phases \o <<"Done">>
  /\ UNCHANGED <<inputVars, thrown, zipVars, requestVars, progressVars>>

\* a failure handler that issues the request once more
ResponseFailure_retry ==
  /\ uploadResult = "pending"
  /\ \E r \in {x \in ResponseSet : ~x.ok} :
       /\ response' = r
       /\ console' = console \o CatchHandler(r)
  /\ IF posts < 2
       THEN /\ posts' = posts + 1
            /\ UNCHANGED <<uploadResult, phases>>
       ELSE /\ posts' = posts
            /\ uploadResult' = "resolved"
            /\ phases' = phases \o <<"Done">>
  /\ UNCHANGED <<inputVars, thrown, zipVars, uploadCalls, gitLog, metadata,
                 url, headers, fields, progressVars>>

ResponseFailure ==
  /\ uploadResult = "pending"
  /\ \E r \in {x \in ResponseSet : ~x.ok} :
       /\ response' = r
       /\ console' = console \o CatchHandler(r)
  /\ uploadResult' = "resolved"
  /\ phases' = phases \o <<"Done">>
  /\ UNCHANGED <<inputVars, thrown, zipVars, requestVars, progressVars>>

Next ==
  \/ UploadCommand
  \/ ArchiveError
  \/ OutputFinish
  \/ Progress
  \/ ResponseSuccess
  \/ ResponseFailure

Spec == Init /\ [][Next]_vars

(***************************************************************************)
(* Properties                                                               *)
(***************************************************************************)
RefTypes == {"tag", "branch"}

\* C1: a request is only ever created for a RevisionInfo whose reftype is
\* "tag" or "branch"; for any other reftype upload() fails at URL
\* construction and the run issues no POST and gets no response.
C1_NoPostWithoutRefType ==
  /\ posts > 0 => metadata.reftype \in RefTypes
  /\ uploadCalls > 0 /\ metadata.reftype \notin RefTypes
       => /\ uploadResult = "threw"
          /\ posts = 0
          /\ response = NoResponse

C1_Witness ==
  /\ uploadCalls > 0
  /\ metadata.reftype = NullRef
  /\ uploadResult = "threw"

\* C2 (as claimed): whenever a POST has been issued, in CI mode as well as
\* in local mode, the resolved ref is a present, non-null reference name.
C2_PostImpliesRefPresent ==
  posts > 0 => metadata.ref.t = "string"

\* C3: a failure of the issued request is caught inside upload(): the promise
\* of upload() resolves and never rejects; status 401 prints the unauthorized
\* message and nothing else, any other failure prints "Upload failed"
\* followed by the error detail.
C3_FailureIsReported ==
  /\ uploadResult # "rejected"
  /\ response # NoResponse /\ ~response.ok
       => /\ uploadResult = "resolved"
          /\ console = <<"Zipping", "Uploading">>
                       \o (IF response.status = 401
                             THEN <<"Unauthorized">>
                             ELSE <<"Upload failed", "error">>)

C3_Witness ==
  /\ response.status = 401
  /\ uploadResult = "resolved"
  /\ headers # {}

Linear == <<"Idle", "Validating", "Archiving", "Uploading", "Done">>

\* C4: the run is linear, Idle -> Validating -> Archiving -> Uploading ->
\* Done, no phase repeated; the temp archive is created only after path
\* validation succeeded, upload() starts only after 'finish' resolved zip(),
\* and a run creates at most one archive and issues at most one request.
C4_LinearRun ==
  /\ Len(phases) <= Len(Linear)
  /\ phases = SubSeq(Linear, 1, Len(phases))
  /\ tmpFiles <= 1
  /\ uploadCalls <= 1
  /\ posts <= 1
  /\ tmpFiles > 0 => Len(phases) >= 3 /\ thrown = "none" /\ fs = "dir"
  /\ uploadCalls > 0 => /\ output = "finished"
                        /\ zipPromise = "resolved"
                        /\ tmpFiles = 1

C4_Witness ==
  /\ phases = Linear
  /\ posts = 1
  /\ nEvents > 0

\* C5: a validation or archival failure short-circuits the pipeline: when
\* validatePath throws no archive file is created and upload() is never
\* invoked; when the archiver emits an error the promise of zip() rejects
\* and upload() is never invoked (no git subprocess, no request).
C5_FailureShortCircuits ==
  /\ fs # "dir" /\ Len(phases) > 1 => thrown # "none"
  /\ thrown # "none"
       => /\ tmpFiles = 0
          /\ zipPromise = "none"
          /\ uploadCalls = 0
          /\ gitLog = <<>>
          /\ posts = 0
  /\ archive = "errored"
       => /\ zipPromise = "rejected"
          /\ uploadCalls = 0
          /\ gitLog = <<>>
          /\ metadata = NoMeta
          /\ posts = 0

C5_Witness ==
  /\ archive = "errored"
  /\ output = "finished"
  /\ zipPromise = "rejected"

S_HEAD == <<"H","E","A","D">>

\* C6 (as claimed): in local mode a tag that matches HEAD exactly gives
\* reftype "tag" with that tag; otherwise the branch name gives reftype
\* "branch"; a branch-name query that yields the generic "HEAD" or fails
\* gives reftype null; a failing git invocation gives null for its field.
C6_LocalResolution ==
  uploadCalls > 0 /\ ~Truthy(env.CI)
    => /\ Len(gitLog) >= 2
       /\ gitLog[1].cmd = "show" /\ gitLog[2].cmd = "describe"
       /\ ~gitLog[1].out.ok => metadata.sha = Null
       /\ IF gitLog[2].out.ok
            THEN /\ Len(gitLog) = 2
                 /\ metadata.reftype = "tag"
                 /\ metadata.ref = Str(Trim(gitLog[2].out.stdout))
            ELSE /\ Len(gitLog) = 3
                 /\ gitLog[3].cmd = "rev-parse"
                 /\ IF \/ ~gitLog[3].out.ok
                       \/ Trim(gitLog[3].out.stdout) = S_HEAD
                      THEN metadata.reftype = NullRef
                      ELSE /\ metadata.reftype = "branch"
                           /\ metadata.ref = Str(Trim(gitLog[3].out.stdout))

\* what C7 says gitInfo() returns in CI mode
CiResolution ==
  /\ gitLog = <<>>
  /\ metadata.sha = env.CI_BUILD_REF
  /\ IF env.CI_BUILD_TAG.t = "string" /\ env.CI_BUILD_TAG.v # <<>>
       THEN metadata.reftype = "tag" /\ metadata.ref = env.CI_BUILD_TAG
       ELSE /\ metadata.reftype = "branch"
            /\ metadata.ref = env.CI_BUILD_REF_NAME

\* C7 (as claimed): whenever the CI variable is set, gitInfo() runs no git
\* subprocess and returns sha = CI_BUILD_REF, the tag if CI_BUILD_TAG is set
\* and non-empty, else the branch CI_BUILD_REF_NAME.
C7_CiWheneverSet ==
  uploadCalls > 0 /\ env.CI # Undefined => CiResolution

\* C7 (amended): the same whenever the CI variable is set to a non-empty
\* value; CI set to the empty string is local mode.
C7_CiWheneverNonEmpty ==
  /\ uploadCalls > 0 /\ env.CI.t = "string" /\ env.CI.v # <<>> => CiResolution
  /\ uploadCalls > 0 /\ env.CI = Str(<<>>) => Len(gitLog) >= 2

C7_Witness ==
  /\ uploadCalls > 0
  /\ env.CI = Str(<<"1">>)
  /\ env.CI_BUILD_TAG = Str(S_v120)
  /\ env.CI_BUILD_REF_NAME = Str(S_main)
  /\ metadata = [sha |-> Str(S_abc123), reftype |-> "tag", ref |-> Str(S_v120)]

\* C8: the request carries an Authorization header iff the configured API
\* key is non-null and non-empty, its value is the key verbatim, and for a
\* null or empty key the request is issued all the same, without the header.
C8_AuthorizationHeader ==
  /\ posts > 0
       => headers = IF options.apiKey.t = "string" /\ options.apiKey.v # <<>>
                      THEN {<<"Authorization", options.apiKey>>}
                      ELSE {}
  /\ uploadCalls > 0 /\ metadata.reftype \in RefTypes => posts = 1

C8_Witness ==
  /\ posts = 1
  /\ options.apiKey = Str(<<>>)
  /\ headers = {}

S_exampleUrl ==
  <<"h","t","t","p","s",":","/","/","a","p","i",".","e","x","a","m","p","l",
    "e",".","c","o","m","/","p","r","o","j","e","c","t","s","/","d","e","m",
    "o","/","b","r","a","n","c","h","e","s","/","m","a","i","n">>

\* C9: for reftype "tag" or "branch" the URL is exactly apiUrl + "/projects/"
\* + urlEncode(project) + "/" + plural(reftype) + "/" + urlEncode(ref), with
\* plural "branches" for "branch" and "tags" for "tag"; project "demo" on
\* branch "main" at https://api.example.com gives
\* https://api.example.com/projects/demo/branches/main.
C9_UrlShape ==
  posts > 0
    => /\ url = options.apiUrl.v
                \o <<"/","p","r","o","j","e","c","t","s","/">>
                \o encodeURIComponent(options.project)
                \o <<"/">>
                \o (IF metadata.reftype = "branch"
                      THEN <<"b","r","a","n","c","h","e","s">>
                      ELSE <<"t","a","g","s">>)
                \o <<"/">>
                \o encodeURIComponent(metadata.ref)
       /\ /\ options.apiUrl = Str(S_example)
          /\ options.project = Str(S_demo)
          /\ metadata.reftype = "branch"
          /\ metadata.ref = Str(S_main)
          => url = S_exampleUrl

C9_Witness ==
  /\ posts = 1
  /\ options.project = Str(<<"a","/","b">>)
  /\ metadata.reftype = "branch"
  /\ metadata.ref = Str(<<"f","/","x">>)

\* what both readings of C10 say of the first event and of the indicator
ProgressCreation ==
  /\ barsCreated <= 1
  /\ nEvents = 0 => ~bar.defined /\ ticks = <<>>
  /\ nEvents > 0 => /\ bar = [defined |-> TRUE, total |-> firstTotal]
                    /\ barsCreated = 1
                    /\ Len(ticks) = nEvents - 1

\* C10 (as claimed): the first progress event creates the indicator sized to
\* its total and advances nothing; every later event advances it by its
\* loaded value minus the previous event's loaded value.
C10_TickIsDeltaOfEvents ==
  /\ ProgressCreation
  /\ \A i \in 2..nEvents :
       i - 1 <= Len(ticks) => ticks[i - 1] = loadedLog[i] - loadedLog[i - 1]

\* C10 (amended): the first progress event creates the indicator sized to
\* its total and advances nothing, and its loaded value is not recorded; the
\* second event advances the indicator by its whole loaded value, and every
\* event after it by its loaded value minus the previous event's.
C10_TickIsDeltaOfLast ==
  /\ ProgressCreation
  /\ \A i \in 2..nEvents :
       i - 1 <= Len(ticks)
         => ticks[i - 1] = loadedLog[i]
                           - (IF i = 2 THEN 0 ELSE loadedLog[i - 1])

C10_Witness ==
  /\ nEvents = 3
  /\ loadedLog = <<1, 1, 0>>
  /\ ticks = <<1, -1>>

====
